---- MODULE Spec2Model ----
(***************************************************************************)
(* The question pipeline of the CSV chat application: app.py asks the      *)
(* language model for a plan (llm_utils.generate_query_plan), takes the    *)
(* SQL out of the plan, runs it (db_utils.run_sql) and shows the table or  *)
(* executes the generated chart snippet                                    *)
(* (viz_utils.execute_visualization).                                      *)
(*                                                                         *)
(* Text is a sequence of tokens.  A token is a record whose field t is    *)
(* the kind of the token; a "json" token has a second field v, the JSON    *)
(* document it is the text of.  Token kinds:                               *)
(*   "ws"  a blank            "nl"  a line feed                            *)
(*   "SELECT"  the keyword in upper case, "select" the same in lower case  *)
(*   "drop"  another SQL keyword   "from"   "x" a word   ";"               *)
(*   "--"  "/*"  "*/"  the SQL comment markers                            *)
(*   "fence" a markdown fence marker   "tag" a language tag (json, sql)    *)
(*   "json" the text of one complete JSON value                            *)
(***************************************************************************)
EXTENDS Integers, Sequences, FiniteSets, TLC

VARIABLES
    pc,          \* position of the app script for the current question
    db,          \* contents of table "data" in data.db
    requests,    \* upstream chat-completion requests made for this question
    response,    \* the content of the last upstream response
    plan,        \* what generate_query_plan returned
    sql,         \* the string app.py hands to run_sql
    store,       \* how the store answers this run: [explain, exec, rows]
    events,      \* what run_sql did, in order
    open_conns,  \* SQLite connections currently open
    result,      \* what run_sql returned: [ok, rows]
    ui,          \* what the app has put on the page for this question
    error        \* the exception that ended the script run, "none" if none

vars == <<pc, db, requests, response, plan, sql, store, events, open_conns,
          result, ui, error>>

----------------------------------------------------------------------------
(* Bounds of the model *)

MaxSqlLen == 4    \* longest "sql" value of a JSON plan, in tokens
MaxTextLen == 5   \* longest bare (non-JSON) response, in tokens
MaxVizLen == 3    \* longest chart snippet, in lines

----------------------------------------------------------------------------
(* JSON values and tokens *)

\* A JSON value used as the value of a key: ty is "str", "num", "null",
\* and "none" when the key is absent; s is the text of a "str".
NoVal == [ty |-> "none", s |-> <<>>]
StrVal(s) == [ty |-> "str", s |-> s]
NumVal == [ty |-> "num", s |-> <<>>]
NullVal == [ty |-> "null", s |-> <<>>]

\* A JSON document: ty is "dict", "list", "num", "str", or "none" where
\* there is no document.  A dict holds the keys "sql" and "viz_code" when
\* has_sql / has_viz say so.
Doc(ty, hs, s, hv, v) == [ty |-> ty, has_sql |-> hs, sql |-> s, has_viz |-> hv, viz |-> v]
NoDoc == Doc("none", FALSE, NoVal, FALSE, NoVal)
Dict(hs, s, hv, v) == Doc("dict", hs, s, hv, v)

Tok(t) == [t |-> t]
JsonTok(d) == [t |-> "json", v |-> d]
Text(kinds) == [i \in 1..Len(kinds) |-> Tok(kinds[i])]

RECURSIVE SeqsUpTo(_, _)
\* every sequence over S of length at most n
SeqsUpTo(S, n) ==
    IF n = 0 THEN {<<>>}
    ELSE LET shorter == SeqsUpTo(S, n - 1)
         IN  shorter \cup {Append(s, c) : s \in {q \in shorter : Len(q) = n - 1}, c \in S}

----------------------------------------------------------------------------
(* Python string operations on token sequences *)

IsSpace(tok) == tok.t \in {"ws", "nl"}

RECURSIVE lstrip(_)
lstrip(s) == IF s # <<>> /\ IsSpace(Head(s)) THEN lstrip(Tail(s)) ELSE s

RECURSIVE rstrip(_)
rstrip(s) ==
    IF s # <<>> /\ IsSpace(s[Len(s)]) THEN rstrip(SubSeq(s, 1, Len(s) - 1)) ELSE s

strip(s) == rstrip(lstrip(s))

\* str.lower(): the only upper-case token is the keyword.
lower(s) == [i \in 1..Len(s) |-> IF s[i].t = "SELECT" THEN Tok("select") ELSE s[i]]

\* s.startswith(k) for a one-token k
startswith(s, k) == s # <<>> /\ s[1].t = k

\* position of the first token of kind k in s, 0 when there is none
Find(s, k) ==
    IF \E i \in 1..Len(s) : s[i].t = k
    THEN CHOOSE i \in 1..Len(s) : s[i].t = k /\ \A j \in 1..(i - 1) : s[j].t # k
    ELSE 0

RECURSIVE split(_, _)
\* s.split(k): the pieces of s between the tokens of kind k
split(s, k) ==
    LET i == Find(s, k)
    IN  IF i = 0 THEN <<s>>
        ELSE <<SubSeq(s, 1, i - 1)>> \o split(SubSeq(s, i + 1, Len(s)), k)

\* s.split(k, 1): at most one cut
split1(s, k) ==
    LET i == Find(s, k)
    IN  IF i = 0 THEN <<s>>
        ELSE <<SubSeq(s, 1, i - 1), SubSeq(s, i + 1, Len(s))>>

RECURSIVE join(_, _)
\* k.join(pieces)
join(pieces, k) ==
    IF pieces = <<>> THEN <<>>
    ELSE IF Len(pieces) = 1 THEN pieces[1]
    ELSE pieces[1] \o <<Tok(k)>> \o join(Tail(pieces), k)

----------------------------------------------------------------------------
(* llm_utils.generate_query_plan *)

\* What one chat-completion request gives back: the call raised, or the
\* message content is None, or it is the text.
Reply(raised, none, text) == [raised |-> raised, none |-> none, text |-> text]

\* the mutant of strip_fences that keeps the opening fence line
strip_fences_keeps_opening(content) ==
    IF startswith(content, "fence")
    THEN LET lines == split(content, "nl")
             closing == {i \in 2..Len(lines) : startswith(strip(lines[i]), "fence")}
             end_idx == IF closing = {} THEN Len(lines) + 1
                        ELSE CHOOSE i \in closing : \A j \in closing : i <= j
         IN  strip(join(SubSeq(lines, 1, end_idx - 1), "nl"))
    ELSE content

\* lines 163-174: drop the opening fence line and everything from the first
\* later line that starts with a fence.
strip_fences(content) ==
    IF startswith(content, "fence")
    THEN LET lines == split(content, "nl")
             closing == {i \in 2..Len(lines) : startswith(strip(lines[i]), "fence")}
             end_idx == IF closing = {} THEN Len(lines) + 1
                        ELSE CHOOSE i \in closing : \A j \in closing : i <= j
         IN  strip(join(SubSeq(lines, 2, end_idx - 1), "nl"))
    ELSE content

\* json.loads(content): content is the text of exactly one JSON value.
\* [ok, doc]; ok = FALSE is json.JSONDecodeError.
json_loads(content) ==
    LET body == strip(content)
    IN  IF Len(body) = 1 /\ body[1].t = "json"
        THEN [ok |-> TRUE, doc |-> body[1].v]
        ELSE [ok |-> FALSE, doc |-> NoDoc]

Returned(d) == [returned |-> TRUE, d |-> d, err |-> "none", calls |-> 1]
Raised(e) == [returned |-> FALSE, d |-> NoDoc, err |-> e, calls |-> 1]

\* lines 181-203: JSON first, raw SQL second.
parse_plan(content) ==
    LET parsed == json_loads(content)
    IN  IF parsed.ok
        THEN IF parsed.doc.ty # "dict"
             THEN Returned(Dict(TRUE, StrVal(strip(content)), FALSE, NoVal))
             ELSE IF parsed.doc.has_sql /\ parsed.doc.sql.ty = "str"
                  THEN Returned([parsed.doc EXCEPT !.sql = StrVal(strip(parsed.doc.sql.s))])
                  ELSE Returned(parsed.doc)
        ELSE IF startswith(strip(lower(content)), "select")
             THEN Returned(Dict(TRUE, StrVal(strip(content)), FALSE, NoVal))
             ELSE Raised("ValueError: neither JSON nor SQL")

\* the mutant of generate_query_plan that asks again (temperature 0: the same
\* reply) after every failure, a third time too
generate_query_plan_asks_again(reply) ==
    IF reply.raised THEN [Raised("upstream") EXCEPT !.calls = 3]
    ELSE IF reply.none \/ reply.text = <<>>
         THEN [Raised("ValueError: empty response") EXCEPT !.calls = 3]
         ELSE LET r == parse_plan(strip_fences(strip(reply.text)))
              IN  IF r.returned THEN r ELSE [r EXCEPT !.calls = 3]

\* lines 146-207: one request, then the content is checked, unfenced, parsed.
\* [returned, d, err, calls]: the dict returned or the exception raised, and
\* the number of requests made.
generate_query_plan(reply) ==
    IF reply.raised THEN Raised("upstream")
    ELSE IF reply.none \/ reply.text = <<>>
         THEN Raised("ValueError: empty response")
         ELSE parse_plan(strip_fences(strip(reply.text)))

----------------------------------------------------------------------------
(* db_utils.run_sql *)

RECURSIVE skip_line_comments(_)
\* lines 101-102: while the text starts with "--", drop its first line
skip_line_comments(s) ==
    IF startswith(s, "--")
    THEN skip_line_comments(lstrip(join(Tail(split(s, "nl")), "nl")))
    ELSE s

\* lines 95-108: the SELECT check.  "ok", or the exception it raises.
validate(sql_text) ==
    LET sql_clean == strip(sql_text)
        after_lines == skip_line_comments(lower(sql_clean))
        parts == split1(after_lines, "*/")
    IN  IF startswith(after_lines, "/*") /\ Len(parts) < 2
        THEN "IndexError"
        ELSE LET sql_lower == IF startswith(after_lines, "/*")
                              THEN lower(lstrip(parts[2]))
                              ELSE after_lines
             IN  IF startswith(sql_lower, "select") THEN "ok"
                 ELSE "ValueError: Only SELECT queries are allowed"

\* one thing run_sql does with the store
Ev(op, stmt) == [op |-> op, stmt |-> stmt]

\* how the store answers one run: whether it accepts the EXPLAIN QUERY PLAN
\* statement, whether it accepts the statement, and the rows it then gives
StoreAnswer(explain, exec, rows) == [explain |-> explain, exec |-> exec, rows |-> rows]

Run(evs, err, rows, left_open) ==
    [events |-> evs, err |-> err, rows |-> rows, left_open |-> left_open]

\* the mutant of run_sql that opens the connection before the SELECT check
run_sql_connects_first(sql_text, st) ==
    LET sql_clean == strip(sql_text)
        explain == Ev("explain", sql_clean)
        execute == Ev("execute", sql_clean)
        connect == Ev("connect", <<>>)
        close == Ev("close", <<>>)
    IN  IF validate(sql_text) # "ok"
        THEN Run(<<connect, close>>, validate(sql_text), <<>>, 0)
        ELSE IF ~st.explain
             THEN Run(<<connect, explain, close>>, "sqlite3.Error", <<>>, 0)
             ELSE IF ~st.exec
                  THEN Run(<<connect, explain, execute, close>>, "sqlite3.Error", <<>>, 0)
                  ELSE Run(<<connect, explain, execute, close>>, "none", st.rows, 0)

\* the mutant of run_sql without the finally block: closed on success only
run_sql_closes_on_success(sql_text, st) ==
    LET sql_clean == strip(sql_text)
        explain == Ev("explain", sql_clean)
        execute == Ev("execute", sql_clean)
        connect == Ev("connect", <<>>)
        close == Ev("close", <<>>)
    IN  IF validate(sql_text) # "ok"
        THEN Run(<<>>, validate(sql_text), <<>>, 0)
        ELSE IF ~st.explain
             THEN Run(<<connect, explain>>, "sqlite3.Error", <<>>, 1)
             ELSE IF ~st.exec
                  THEN Run(<<connect, explain, execute>>, "sqlite3.Error", <<>>, 1)
                  ELSE Run(<<connect, explain, execute, close>>, "none", st.rows, 0)

\* lines 92-149: check, connect, EXPLAIN QUERY PLAN, execute, fetch; the
\* except clause re-raises and the finally clause closes.
\* [events, err, rows, left_open]
run_sql(sql_text, st) ==
    LET sql_clean == strip(sql_text)
        explain == Ev("explain", sql_clean)
        execute == Ev("execute", sql_clean)
        connect == Ev("connect", <<>>)
        close == Ev("close", <<>>)
    IN  IF validate(sql_text) # "ok"
        THEN Run(<<>>, validate(sql_text), <<>>, 0)
        ELSE IF ~st.explain
             THEN Run(<<connect, explain, close>>, "sqlite3.Error", <<>>, 0)
             ELSE IF ~st.exec
                  THEN Run(<<connect, explain, execute, close>>, "sqlite3.Error", <<>>, 0)
                  ELSE Run(<<connect, explain, execute, close>>, "none", st.rows, 0)

----------------------------------------------------------------------------
(* viz_utils.execute_visualization *)

\* One widget the app puts on the page: the Streamlit call, the text it
\* shows and the table or the figure data it shows.
Widget(w, text, rows) == [w |-> w, text |-> text, rows |-> rows]

\* the figure slot: None, or a figure built from a table
NoFig == [set |-> FALSE, data |-> <<>>]
Fig(df) == [set |-> TRUE, data |-> df]

\* str.splitlines()
splitlines(s) ==
    IF s = <<>> THEN <<>>
    ELSE IF s[Len(s)].t = "nl" THEN split(SubSeq(s, 1, Len(s) - 1), "nl")
    ELSE split(s, "nl")

\* lines 15-18: the lines that do not start with "import " or "from "
RECURSIVE drop_imports(_)
drop_imports(lines) ==
    IF lines = <<>> THEN <<>>
    ELSE IF \/ startswith(strip(Head(lines)), "import")
            \/ startswith(strip(Head(lines)), "fromimport")
         THEN drop_imports(Tail(lines))
         ELSE <<Head(lines)>> \o drop_imports(Tail(lines))

\* lines 21-27: the globals the snippet runs in
exec_globals(df) == [df |-> df, fig |-> NoFig]

RECURSIVE exec(_, _)
\* line 29: exec(viz_code, exec_globals).  The statements run in order:
\* "setfig" is fig = px...(df), "delfig" is fig = None, "raise" raises an
\* Exception, "exit" raises SystemExit (a BaseException that is no
\* Exception); a name that only a dropped import bound is a NameError.
\* [scope, exc]
exec(code, scope) ==
    IF code = <<>> THEN [scope |-> scope, exc |-> "none"]
    ELSE LET stmt == Head(code).t
         IN  IF stmt = "raise" THEN [scope |-> scope, exc |-> "Exception"]
             ELSE IF stmt = "exit" THEN [scope |-> scope, exc |-> "SystemExit"]
             ELSE IF stmt = "setfig"
                  THEN exec(Tail(code), [scope EXCEPT !.fig = Fig(scope.df)])
             ELSE IF stmt = "delfig"
                  THEN exec(Tail(code), [scope EXCEPT !.fig = NoFig])
             ELSE exec(Tail(code), scope)

\* lines 9-47.  [shown, escaped]: the widgets put on the page and the
\* exception that leaves the function ("none" when it returns).
execute_visualization(df, viz_code) ==
    LET code == join(drop_imports(splitlines(viz_code)), "nl")
        ran == exec(code, exec_globals(df))
    IN  IF ran.exc = "SystemExit"
        THEN [shown |-> <<>>, escaped |-> "SystemExit"]
        ELSE IF ran.exc = "Exception"
        THEN [shown |-> << Widget("error: executing visualization", <<>>, <<>>),
                           Widget("subheader: Generated Code", <<>>, <<>>),
                           Widget("code", code, <<>>),
                           Widget("subheader: DataFrame Preview", <<>>, <<>>),
                           Widget("dataframe", <<>>, df) >>,
              escaped |-> "none"]
        ELSE IF ~ran.scope.fig.set
        THEN [shown |-> << Widget("error: did not create a figure", <<>>, <<>>),
                           Widget("code", code, <<>>) >>,
              escaped |-> "none"]
        ELSE [shown |-> << Widget("plotly_chart", <<>>, ran.scope.fig.data) >>,
              escaped |-> "none"]

----------------------------------------------------------------------------
(* What the upstream model and the uploaded file can be *)

SqlAlphabet == {"ws", "nl", "SELECT", "drop", "--", "/*", "*/"}
SqlStrings == {Text(k) : k \in SeqsUpTo(SqlAlphabet, MaxSqlLen)}

TextAlphabet == {"ws", "SELECT", "from", "x", ";"}
BareTexts == {Text(k) : k \in SeqsUpTo(TextAlphabet, MaxTextLen)}

StmtKinds == {"import", "fromimport", "setfig", "delfig", "pass", "raise", "exit"}
VizCodes ==
    {join([i \in 1..Len(k) |-> <<Tok(k[i])>>], "nl") : k \in SeqsUpTo(StmtKinds, MaxVizLen)}

PaddedSql == Text(<<"ws", "SELECT", "x", "from", "x", ";", "nl">>)

SqlDocs == {Dict(TRUE, StrVal(s), FALSE, NoVal) : s \in SqlStrings}
VizDocs == {Dict(TRUE, StrVal(PaddedSql), TRUE, StrVal(c)) : c \in VizCodes}
OddDocs ==
    { Dict(FALSE, NoVal, FALSE, NoVal),
      Dict(FALSE, NoVal, TRUE, StrVal(Text(<<"setfig">>))),
      Dict(TRUE, NumVal, FALSE, NoVal),
      Dict(TRUE, NullVal, FALSE, NoVal),
      Dict(TRUE, StrVal(<<>>), TRUE, StrVal(Text(<<"setfig">>))),
      Doc("list", FALSE, NoVal, FALSE, NoVal),
      Doc("num", FALSE, NoVal, FALSE, NoVal),
      Doc("str", FALSE, NoVal, FALSE, NoVal) }

\* the opening fence line, with or without a language tag
Openings ==
    { Text(<<"fence", "nl">>), Text(<<"fence", "tag", "nl">>),
      Text(<<"ws", "fence", "tag", "ws", "nl", "nl">>) }
\* nothing, or the closing fence line and what follows it
Closings ==
    { <<>>, Text(<<"nl", "fence">>), Text(<<"nl", "ws", "fence", "ws", "nl">>),
      Text(<<"nl", "fence", "nl", "x", "x">>) }

\* the bodies the model may put between fences
FencedBodies ==
    { <<JsonTok(d)>> : d \in OddDocs \cup
          { Dict(TRUE, StrVal(PaddedSql), FALSE, NoVal),
            Dict(TRUE, StrVal(PaddedSql), TRUE, StrVal(Text(<<"import", "nl", "setfig">>))),
            Dict(TRUE, StrVal(Text(<<"ws">>)), FALSE, NoVal),
            Dict(TRUE, StrVal(Text(<<"/*", "drop">>)), FALSE, NoVal) } }
    \cup { Text(<<"SELECT", "x", "from", "x">>), Text(<<"SELECT", "x", "nl", "from", "x", ";">>),
           Text(<<"SELECT", "x">>), Text(<<"x", "x">>), <<>> }

FencedTexts == {o \o b \o c : o \in Openings, b \in FencedBodies, c \in Closings}

\* fences that are not on lines of their own, and prose around the fences
MisfencedTexts ==
    UNION { { Text(<<"fence", "tag", "ws">>) \o b \o Text(<<"ws", "fence">>),
              Text(<<"fence", "nl">>) \o b \o Text(<<"fence">>),
              b \o Text(<<"nl", "fence">>),
              Text(<<"x", "nl", "fence", "nl">>) \o b \o Text(<<"nl", "fence">>) }
            : b \in FencedBodies }

Texts ==
    {<<JsonTok(d)>> : d \in SqlDocs \cup VizDocs \cup OddDocs}
    \cup BareTexts \cup FencedTexts \cup MisfencedTexts

Replies ==
    {Reply(TRUE, FALSE, <<>>), Reply(FALSE, TRUE, <<>>)}
    \cup {Reply(FALSE, FALSE, t) : t \in Texts}

\* the rows of an uploaded CSV file
Tables == {<<1>>, <<1, 2>>}

\* what the store may answer to a run on table db
StoreAnswers(table) ==
    {StoreAnswer(e, x, r) : e \in BOOLEAN, x \in BOOLEAN, r \in {<<>>, table}}

----------------------------------------------------------------------------
(* The app script, app.py *)

NoReply == Reply(FALSE, TRUE, <<>>)
NoPlan == [returned |-> FALSE, d |-> NoDoc]
NoStore == StoreAnswer(FALSE, FALSE, <<>>)
NoResult == [ok |-> FALSE, rows |-> <<>>]

Label(w) == Widget(w, <<>>, <<>>)

Resting == {"idle", "done", "stopped", "plan_failed", "sql_failed", "run_failed", "render_failed"}

Init ==
    /\ pc = "idle"
    /\ db \in Tables
    /\ requests = 0
    /\ response = NoReply
    /\ plan = NoPlan
    /\ sql = <<>>
    /\ store = NoStore
    /\ events = <<>>
    /\ open_conns = 0
    /\ result = NoResult
    /\ ui = <<>>
    /\ error = "none"

\* db_utils.csv_to_sqlite, lines 8-55: an empty frame is not written, any
\* other replaces the table
csv_to_sqlite(df, table) == IF df = <<>> THEN table ELSE df

\* app.py lines 15-31: a file is uploaded and the script runs again
Upload ==
    /\ pc \in Resting
    /\ \E df \in Tables \cup {<<>>} : db' = csv_to_sqlite(df, db)
    /\ pc' = "idle"
    /\ requests' = 0
    /\ response' = NoReply
    /\ plan' = NoPlan
    /\ sql' = <<>>
    /\ store' = NoStore
    /\ events' = <<>>
    /\ result' = NoResult
    /\ ui' = <<>>
    /\ error' = "none"
    /\ UNCHANGED open_conns

\* app.py lines 33-37: a question is typed, the script runs again and
\* builds the prompt
AskQuestion ==
    /\ pc \in Resting
    /\ pc' = "asked"
    /\ requests' = 0
    /\ response' = NoReply
    /\ plan' = NoPlan
    /\ sql' = <<>>
    /\ store' = NoStore
    /\ events' = <<>>
    /\ result' = NoResult
    /\ ui' = <<>>
    /\ error' = "none"
    /\ UNCHANGED <<db, open_conns>>

\* app.py lines 40-44: plan = generate_query_plan(prompt); st.json(plan)
GenerateQueryPlan ==
    /\ pc = "asked"
    /\ \E reply \in Replies :
         LET g == generate_query_plan(reply)
         IN  /\ response' = reply
             /\ requests' = requests + g.calls
             /\ plan' = [returned |-> g.returned, d |-> g.d]
             /\ error' = g.err
             /\ pc' = IF g.returned THEN "planned" ELSE "plan_failed"
             /\ ui' = IF g.returned
                      THEN <<Label("subheader: LLM Raw Plan"), Widget("json", <<JsonTok(g.d)>>, <<>>)>>
                      ELSE ui
    /\ UNCHANGED <<db, sql, store, events, open_conns, result>>

\* app.py lines 47-67: sql = plan.get("sql", ""); stop when it is falsy;
\* sql.strip() (an AttributeError when the value is no string)
PlanHandling ==
    /\ pc = "planned"
    /\ LET value == IF plan.d.has_sql THEN plan.d.sql ELSE StrVal(<<>>)
       IN  IF value.ty = "null" \/ (value.ty = "str" /\ value.s = <<>>)
           THEN /\ pc' = "stopped"
                /\ ui' = Append(ui, Label("error: No SQL query generated"))
                /\ UNCHANGED <<sql, error>>
           ELSE IF value.ty # "str"
           THEN /\ pc' = "sql_failed"
                /\ error' = "AttributeError"
                /\ UNCHANGED <<sql, ui>>
           ELSE /\ pc' = "sql_ready"
                /\ sql' = strip(value.s)
                /\ ui' = ui \o <<Label("subheader: Generated SQL"), Widget("code", strip(value.s), <<>>)>>
                /\ UNCHANGED error
    /\ UNCHANGED <<db, requests, response, plan, store, events, open_conns, result>>

\* app.py lines 70-75: cols, rows = run_sql(sql)
RunSql ==
    /\ pc = "sql_ready"
    /\ \E st \in StoreAnswers(db) :
         LET r == run_sql(sql, st)
         IN  /\ store' = st
             /\ events' = r.events
             /\ open_conns' = open_conns + r.left_open
             /\ error' = r.err
             /\ result' = [ok |-> r.err = "none", rows |-> r.rows]
             /\ pc' = IF r.err = "none" THEN "ran" ELSE "run_failed"
             /\ ui' = IF r.err = "none" THEN Append(ui, Label("subheader: Results")) ELSE ui
    /\ UNCHANGED <<db, requests, response, plan, sql>>

\* app.py lines 78-83: the plan has a "viz_code"
RenderChart ==
    /\ pc = "ran"
    /\ plan.d.has_viz
    /\ LET v == execute_visualization(result.rows, plan.d.viz.s)
       IN  /\ ui' = ui \o <<Label("write: Result DataFrame"),
                            Widget("dataframe", <<>>, result.rows),
                            Label("subheader: Visualization")>> \o v.shown
           /\ error' = v.escaped
           /\ pc' = IF v.escaped = "none" THEN "done" ELSE "render_failed"
    /\ UNCHANGED <<db, requests, response, plan, sql, store, events, open_conns, result>>

\* app.py lines 84-85: no "viz_code", the table alone
ShowTable ==
    /\ pc = "ran"
    /\ ~plan.d.has_viz
    /\ ui' = Append(ui, Widget("dataframe", <<>>, result.rows))
    /\ pc' = "done"
    /\ UNCHANGED <<db, requests, response, plan, sql, store, events, open_conns, result, error>>

Next ==
    \/ Upload
    \/ AskQuestion
    \/ GenerateQueryPlan
    \/ PlanHandling
    \/ RunSql
    \/ RenderChart
    \/ ShowTable

Spec == Init /\ [][Next]_vars

----------------------------------------------------------------------------
(* The properties *)

\* generate_query_plan has returned or raised for the current question
PlanAsked == pc \notin {"idle", "asked"}
\* run_sql has returned or raised for the current question
RunCalled == pc \in {"ran", "done", "run_failed", "render_failed"}
\* execute_visualization has returned or raised for the current question
RenderCalled == pc \in {"done", "render_failed"} /\ plan.d.has_viz

Kinds(s) == {s[i].t : i \in 1..Len(s)}
Count(evs, op) == Cardinality({i \in 1..Len(evs) : evs[i].op = op})

\* the response has no plan in it: it is empty, it has neither JSON nor a
\* select in it, or it is SQL without a from clause
C1_NoPlanInResponse ==
    /\ ~response.raised
    /\ \/ response.none
       \/ Kinds(response.text) \cap {"json", "SELECT", "select"} = {}
       \/ "json" \notin Kinds(response.text) /\ "from" \notin Kinds(response.text)

\* C1 -- a first response with no plan in it (empty, unparseable, or SQL
\* without a from clause) is followed by exactly one more upstream request.
C1_OneRetry == (PlanAsked /\ C1_NoPlanInResponse) => requests = 2

\* C2 -- for one question at least one and at most two upstream requests are
\* made, and within a question the count never goes back (a second request,
\* once made, stays made).
C2_RequestBound ==
    /\ [](requests <= 2 /\ (PlanAsked => requests >= 1))
    /\ [][pc' \notin {"idle", "asked"} => requests' >= requests]_vars
C2_Witness ==
    /\ pc = "done" /\ requests = 1
    /\ startswith(response.text, "fence")

RECURSIVE C3_SkipLineComments(_)
\* the text after its leading blanks and its leading run of "--" lines
C3_SkipLineComments(s) ==
    LET t == lstrip(s)
    IN  IF startswith(t, "--")
        THEN LET n == Find(t, "nl")
             IN  IF n = 0 THEN <<>> ELSE C3_SkipLineComments(SubSeq(t, n + 1, Len(t)))
        ELSE t
\* ... and after one leading block comment, terminated or not
C3_SkipComments(s) ==
    LET t == C3_SkipLineComments(s)
    IN  IF startswith(t, "/*")
        THEN LET n == Find(t, "*/")
             IN  IF n = 0 THEN <<>> ELSE lstrip(SubSeq(t, n + 1, Len(t)))
        ELSE t
C3_BeginsWithSelect(s) ==
    \/ startswith(C3_SkipComments(s), "select")
    \/ startswith(C3_SkipComments(s), "SELECT")

\* C3 -- a statement that, after its leading blanks and comments, does not
\* begin with select makes run_sql fail with the only-SELECT error and no other.
C3_NonSelectRejected ==
    (RunCalled /\ ~C3_BeginsWithSelect(sql))
        => error = "ValueError: Only SELECT queries are allowed"

\* the response is the JSON text alone or between an opening fence line and
\* an optional closing fence line
C4_JsonForms(body) ==
    {body, <<Tok("ws")>> \o body \o <<Tok("nl")>>}
    \cup {o \o body \o c : o \in Openings, c \in Closings}

C5_BareSelectFrom(text) ==
    /\ Kinds(text) \cap {"json", "fence", "tag"} = {}
    /\ startswith(strip(text), "SELECT")
    /\ "from" \in Kinds(text)

\* C5 -- a bare SELECT ... FROM ... response gives a plan without viz_code
\* whose sql is the statement, with a semicolon appended unless it ends
\* with one.
C5_Semicolon ==
    (PlanAsked /\ ~response.raised /\ ~response.none /\ C5_BareSelectFrom(response.text))
        => LET stmt == strip(response.text)
           IN  /\ plan.returned /\ ~plan.d.has_viz
               /\ plan.d.sql = StrVal(IF stmt[Len(stmt)].t = ";" THEN stmt
                                      ELSE Append(stmt, Tok(";")))

\* C6 -- every plan returned has a non-empty string sql, and JSON that is
\* not a mapping gives no plan.
C6_PlanHasSql ==
    plan.returned =>
        /\ plan.d.has_sql /\ plan.d.sql.ty = "str" /\ plan.d.sql.s # <<>>
        /\ \A i \in 1..Len(response.text) :
             response.text[i].t = "json" => response.text[i].v.ty = "dict"

\* C7 -- the store is touched only after the SELECT check of that statement
\* passed; a failed check leaves the store unconnected and its table as it was.
C7_ValidatedFirst ==
    /\ [](RunCalled =>
            /\ events # <<>> =>
                 /\ validate(sql) = "ok" /\ C3_BeginsWithSelect(sql)
                 /\ error \notin {"IndexError", "ValueError: Only SELECT queries are allowed"}
                 /\ \A i \in 1..Len(events) :
                      events[i].op \in {"explain", "execute"} => events[i].stmt = strip(sql)
            /\ ~C3_BeginsWithSelect(sql) =>
                 /\ events = <<>>
                 /\ error \in {"IndexError", "ValueError: Only SELECT queries are allowed"})
    /\ [][pc = "sql_ready" => db' = db]_vars
C7_Witness ==
    /\ pc = "ran" /\ startswith(sql, "--")
    /\ Count(events, "explain") = 1 /\ Count(events, "execute") = 1

\* C8 -- a run that passes the check opens one connection, asks for one query
\* plan, executes the statement at most once and closes the connection,
\* whether it returns or raises; no connection stays open.
C8_ConnectionClosed ==
    /\ open_conns = 0
    /\ (RunCalled /\ validate(sql) = "ok") =>
          /\ Count(events, "connect") = 1 /\ events[1].op = "connect"
          /\ Count(events, "explain") = 1
          /\ Count(events, "execute") <= 1
          /\ Count(events, "close") = 1 /\ events[Len(events)].op = "close"
C8_Witness ==
    /\ pc = "run_failed" /\ validate(sql) = "ok"
    /\ store.explain /\ ~store.exec
    /\ Count(events, "execute") = 1 /\ events[Len(events)].op = "close"

\* C9 -- when the store rejects the query-plan request the statement is
\* executed all the same, and its rows are returned when it succeeds.
C9_ExplainNonFatal ==
    (RunCalled /\ validate(sql) = "ok" /\ ~store.explain)
        => /\ Count(events, "execute") = 1
           /\ store.exec => (result.ok /\ result.rows = store.rows)

\* widget w is on the page
C10_Shown(w) == \E i \in 1..Len(ui) : ui[i].w = w
\* what C10 says is on the page once the render is over
C10_Reported ==
    /\ \/ C10_Shown("plotly_chart")
       \/ /\ \/ C10_Shown("error: did not create a figure")
             \/ C10_Shown("error: executing visualization")
          /\ C10_Shown("code")
          /\ \E i \in 1..Len(ui) : ui[i].w = "dataframe" /\ ui[i].rows = result.rows
    /\ C10_Shown("error: did not create a figure") => ~C10_Shown("plotly_chart")
    /\ \A i \in 1..Len(ui) :
         ui[i].w = "plotly_chart" =>
             /\ ui[i].rows = result.rows
             /\ "setfig" \in Kinds(plan.d.viz.s)

\* C10 -- no failure of the snippet leaves execute_visualization: an
\* exception is reported with the code and the table, a missing figure is
\* reported with the code and the table and no chart, and a chart shown is
\* the one this snippet made from this result.
C10_RenderContained == RenderCalled => (error = "none" /\ pc = "done" /\ C10_Reported)

====
